---- MODULE Spec2Model ----
(***************************************************************************)
(* Model of the LifeStyleApp HTTP backend (src/index.js): five express     *)
(* routes, each issuing one parameterized statement through a mysql2 pool  *)
(* to the tables `tasks` and `water_intake`, plus the helper               *)
(* toMySQLDateTime.                                                        *)
(***************************************************************************)
EXTENDS Integers, Sequences, FiniteSets, Bags, TLC

(***************************************************************************)
(* Bounds of the model.                                                    *)
(***************************************************************************)
\* Requests whose statement is with the store at the same time.
MaxInFlight == 2
\* Rows the tasks table may hold before CreateTask requests stop arriving.
MaxTasks == 2

(***************************************************************************)
(* JSON values of a request body: null/absent, a string, or a number.      *)
(***************************************************************************)
JNull == [kind |-> "null"]
JStr(s) == [kind |-> "str", s |-> s]
JNum(n) == [kind |-> "num", n |-> n]

\* JavaScript `!v` on a body field.
Falsy(v) ==
  CASE v.kind = "null" -> TRUE
    [] v.kind = "str" -> v.s = ""
    [] v.kind = "num" -> v.n = 0

\* JavaScript `v == null` (null or undefined only).
IsNullish(v) == v.kind = "null"

(***************************************************************************)
(* JavaScript Date: a time value is kept as whole days since the epoch and *)
(* milliseconds within the day (the time value itself exceeds 32 bits).    *)
(***************************************************************************)
MsPerDay == 24 * 60 * 60 * 1000

InvalidDate == [valid |-> FALSE, day |-> 0, ms |-> 0]

\* Days since 1970-01-01 of the proleptic Gregorian date y-m-d (MakeDay).
MakeDay(y, m, d) ==
  LET yy == IF m <= 2 THEN y - 1 ELSE y
      era == yy \div 400
      yoe == yy - era * 400
      mp == IF m > 2 THEN m - 3 ELSE m + 9
      doy == (153 * mp + 2) \div 5 + d - 1
      doe == yoe * 365 + yoe \div 4 - yoe \div 100 + doy
  IN era * 146097 + doe - 719468

\* The time value of an ISO-8601 UTC literal y-m-dTh:mi:s.msZ.
UTCInstant(y, m, d, h, mi, s, ms) ==
  [valid |-> TRUE, day |-> MakeDay(y, m, d),
   ms |-> ((h * 60 + mi) * 60 + s) * 1000 + ms]

\* new Date(text): the literals the model sends, anything else is Invalid Date.
DateParse(text) ==
  CASE text = "2025-03-21T10:00:00.750Z" -> UTCInstant(2025, 3, 21, 10, 0, 0, 750)
    [] text = "2025-03-21T20:30:00Z" -> UTCInstant(2025, 3, 21, 20, 30, 0, 0)
    [] text = "0999-12-31T23:59:59Z" -> UTCInstant(999, 12, 31, 23, 59, 59, 0)
    [] OTHER -> InvalidDate

\* LocalTime(t): the time value shifted by the process's zone offset (minutes).
LocalTime(t, tzMin) ==
  LET m == t.ms + tzMin * 60 * 1000
  IN [valid |-> t.valid, day |-> t.day + (m \div MsPerDay), ms |-> m % MsPerDay]

\* Year, month (1..12) and day of month of a day number.
CivilFromDays(day) ==
  LET z == day + 719468
      era == z \div 146097
      doe == z - era * 146097
      yoe == (doe - doe \div 1460 + doe \div 36524 - doe \div 146096) \div 365
      doy == doe - (365 * yoe + yoe \div 4 - yoe \div 100)
      mp == (5 * doy + 2) \div 153
      d == doy - (153 * mp + 2) \div 5 + 1
      m == IF mp < 10 THEN mp + 3 ELSE mp - 9
  IN [year |-> yoe + era * 400 + (IF m <= 2 THEN 1 ELSE 0), month |-> m, date |-> d]

getFullYear(t, tzMin) == CivilFromDays(LocalTime(t, tzMin).day).year
\* getMonth() is zero-based.
getMonth(t, tzMin) == CivilFromDays(LocalTime(t, tzMin).day).month - 1
getDate(t, tzMin) == CivilFromDays(LocalTime(t, tzMin).day).date
getHours(t, tzMin) == LocalTime(t, tzMin).ms \div (60 * 60 * 1000)
getMinutes(t, tzMin) == (LocalTime(t, tzMin).ms \div (60 * 1000)) % 60
getSeconds(t, tzMin) == (LocalTime(t, tzMin).ms \div 1000) % 60

\* String(n).padStart(width, "0")
RECURSIVE PadStart(_, _)
PadStart(str, width) == IF Len(str) >= width THEN str ELSE PadStart("0" \o str, width)

\* toMySQLDateTime(dateObj), with the zone offset the Date getters read.
toMySQLDateTime(dateObj, tzMin) ==
  LET year == ToString(getFullYear(dateObj, tzMin))
      month == PadStart(ToString(getMonth(dateObj, tzMin) + 1), 2)
      day == PadStart(ToString(getDate(dateObj, tzMin)), 2)
      hours == PadStart(ToString(getHours(dateObj, tzMin)), 2)
      minutes == PadStart(ToString(getMinutes(dateObj, tzMin)), 2)
      seconds == PadStart(ToString(getSeconds(dateObj, tzMin)), 2)
  IN year \o "-" \o month \o "-" \o day \o " " \o hours \o ":" \o minutes \o ":" \o seconds

(***************************************************************************)
(* The store: the tables `tasks` and `water_intake` and the statements the *)
(* routes send.  A table is the set of its rows; id is AUTO_INCREMENT and  *)
(* water_intake.date carries the UNIQUE key the upsert relies on.          *)
(***************************************************************************)
NoErr == ""
\* The store connection failing under a statement (nothing is applied).
StoreErrors == {"ECONNRESET"}

\* The maximum of a non-empty set of integers.
MaxOf(S) == CHOOSE x \in S : \A y \in S : y <= x

\* A mutant of OrderByIdDesc: the rows in ascending id order.
RECURSIVE OrderByIdAsc(_)
OrderByIdAsc(rows) ==
  IF rows = {} THEN <<>>
  ELSE LET top == CHOOSE r \in rows : r.id = MaxOf({q.id : q \in rows})
       IN Append(OrderByIdAsc(rows \ {top}), top)

\* ORDER BY id DESC over a set of rows.
RECURSIVE OrderByIdDesc(_)
OrderByIdDesc(rows) ==
  IF rows = {} THEN <<>>
  ELSE LET top == CHOOSE r \in rows : r.id = MaxOf({q.id : q \in rows})
       IN <<top>> \o OrderByIdDesc(rows \ {top})

\* A mutant of InsertTask: the new row takes the id of the newest row.
InsertTaskReusingId(tbl, autoInc, values) ==
  LET id == IF tbl = {} THEN autoInc ELSE MaxOf({r.id : r \in tbl})
  IN [err |-> NoErr,
      rows |-> tbl \cup {[id |-> id, type |-> values[1], start_time |-> values[2],
                          end_time |-> values[3], duration |-> values[4]]},
      autoInc |-> autoInc + 1, insertId |-> id]

\* INSERT INTO tasks (type, start_time, end_time, duration) VALUES (?, ?, ?, ?)
InsertTask(tbl, autoInc, values) ==
  [err |-> NoErr,
   rows |-> tbl \cup {[id |-> autoInc, type |-> values[1], start_time |-> values[2],
                       end_time |-> values[3], duration |-> values[4]]},
   autoInc |-> autoInc + 1, insertId |-> autoInc]

\* The store reading a date parameter into a DATE value.
MySQLDate(v) ==
  CASE v.s = "2025-03-21" -> [y |-> 2025, m |-> 3, d |-> 21]
    [] v.s = "2025-03-22" -> [y |-> 2025, m |-> 3, d |-> 22]

\* DATE_FORMAT(date, '%Y-%m-%d')
DateFormat(date) ==
  PadStart(ToString(date.y), 4) \o "-" \o PadStart(ToString(date.m), 2)
    \o "-" \o PadStart(ToString(date.d), 2)

\* A mutant of UpsertWaterIntake: a plain INSERT, the conflict clause dropped.
UpsertWaterIntakeInsertOnly(tbl, autoInc, date, count) ==
  IF \E r \in tbl : r.date = MySQLDate(date)
  THEN [err |-> "ER_DUP_ENTRY", rows |-> tbl, autoInc |-> autoInc]
  ELSE [err |-> NoErr,
        rows |-> tbl \cup {[id |-> autoInc, date |-> MySQLDate(date), count |-> count]},
        autoInc |-> autoInc + 1]

\* A mutant of UpsertWaterIntake: REPLACE INTO, the old row deleted and a new one inserted.
UpsertWaterIntakeReplace(tbl, autoInc, date, count) ==
  [err |-> NoErr,
   rows |-> {r \in tbl : r.date # MySQLDate(date)}
              \cup {[id |-> autoInc, date |-> MySQLDate(date), count |-> count]},
   autoInc |-> autoInc + 1]

\* INSERT INTO water_intake (date, count) VALUES (?, ?) ON DUPLICATE KEY UPDATE count = ?
UpsertWaterIntake(tbl, autoInc, date, count) ==
  IF \E r \in tbl : r.date = MySQLDate(date)
  THEN [err |-> NoErr,
        rows |-> {IF r.date = MySQLDate(date) THEN [r EXCEPT !.count = count] ELSE r :
                    r \in tbl},
        autoInc |-> autoInc]
  ELSE [err |-> NoErr,
        rows |-> tbl \cup {[id |-> autoInc, date |-> MySQLDate(date), count |-> count]},
        autoInc |-> autoInc + 1]

\* SELECT id, DATE_FORMAT(date, '%Y-%m-%d') AS date, count FROM water_intake WHERE date = ?
SelectWaterIntakeByDate(tbl, date) ==
  LET hit == {r \in tbl : r.date = MySQLDate(date)}
  IN [i \in 1..Len(OrderByIdDesc(hit)) |->
        LET r == OrderByIdDesc(hit)[i]
        IN [id |-> JNum(r.id), date |-> DateFormat(r.date), count |-> r.count]]

(***************************************************************************)
(* The route handlers: the synchronous part of each route either answers   *)
(* at once or hands one statement to db.query; the callback answers when   *)
(* the statement's outcome arrives.                                        *)
(***************************************************************************)
MissingFields == [error |-> "Missing fields in request body."]
MissingDateOrCount == [error |-> "Missing date or count."]
InvalidDateFormat == [error |-> "Invalid date format."]
DatabaseError == [error |-> "Database error."]

Respond(status, body) == [respond |-> TRUE, status |-> status, body |-> body]
Query(values) == [respond |-> FALSE, values |-> values]

\* A mutant of PostTasksHandler: the dates are parsed before the presence check.
PostTasksHandlerParseFirst(body, tzMin) ==
  LET startDateObj == IF body.startTime.kind = "str" THEN DateParse(body.startTime.s)
                      ELSE InvalidDate
      endDateObj == IF body.endTime.kind = "str" THEN DateParse(body.endTime.s)
                    ELSE InvalidDate
  IN IF ~startDateObj.valid \/ ~endDateObj.valid
     THEN Respond(400, InvalidDateFormat)
     ELSE IF Falsy(body.type) \/ IsNullish(body.duration)
          THEN Respond(400, MissingFields)
          ELSE Query(<<body.type, toMySQLDateTime(startDateObj, tzMin),
                       toMySQLDateTime(endDateObj, tzMin), body.duration>>)

\* A mutant of PostTasksHandler: duration is tested with `!duration`.
PostTasksHandlerFalsyDuration(body, tzMin) ==
  IF Falsy(body.type) \/ Falsy(body.startTime) \/ Falsy(body.endTime)
       \/ Falsy(body.duration)
  THEN Respond(400, MissingFields)
  ELSE LET startDateObj == DateParse(body.startTime.s)
           endDateObj == DateParse(body.endTime.s)
       IN IF ~startDateObj.valid \/ ~endDateObj.valid
          THEN Respond(400, InvalidDateFormat)
          ELSE Query(<<body.type, toMySQLDateTime(startDateObj, tzMin),
                       toMySQLDateTime(endDateObj, tzMin), body.duration>>)

\* A mutant of PostTasksHandler: only startTime is checked for Invalid Date.
PostTasksHandlerStartOnly(body, tzMin) ==
  IF Falsy(body.type) \/ Falsy(body.startTime) \/ Falsy(body.endTime)
       \/ IsNullish(body.duration)
  THEN Respond(400, MissingFields)
  ELSE LET startDateObj == DateParse(body.startTime.s)
           endDateObj == DateParse(body.endTime.s)
       IN IF ~startDateObj.valid
          THEN Respond(400, InvalidDateFormat)
          ELSE Query(<<body.type, toMySQLDateTime(startDateObj, tzMin),
                       toMySQLDateTime(endDateObj, tzMin), body.duration>>)

\* app.post("/tasks"), up to db.query.
PostTasksHandler(body, tzMin) ==
  IF Falsy(body.type) \/ Falsy(body.startTime) \/ Falsy(body.endTime)
       \/ IsNullish(body.duration)
  THEN Respond(400, MissingFields)
  ELSE LET startDateObj == DateParse(body.startTime.s)
           endDateObj == DateParse(body.endTime.s)
       IN IF ~startDateObj.valid \/ ~endDateObj.valid
          THEN Respond(400, InvalidDateFormat)
          ELSE LET startMySQL == toMySQLDateTime(startDateObj, tzMin)
                   endMySQL == toMySQLDateTime(endDateObj, tzMin)
               IN Query(<<body.type, startMySQL, endMySQL, body.duration>>)

\* app.post("/water-intake"), up to db.query.
PostWaterIntakeHandler(body) ==
  IF Falsy(body.date) \/ IsNullish(body.count)
  THEN Respond(400, MissingDateOrCount)
  ELSE Query(<<body.date, body.count, body.count>>)

\* What a callback does with (err, result): the answer, and whether it threw.
Answer(status, body) == [status |-> status, body |-> body, threw |-> FALSE]

\* A mutant of PostTasksCallback: the store's error is echoed to the caller.
PostTasksCallbackEcho(err, result) ==
  IF err # NoErr THEN Answer(500, [error |-> err])
  ELSE Answer(201, [message |-> "Task created.", taskId |-> result.insertId])

\* The db.query callback of app.post("/tasks").
PostTasksCallback(err, result) ==
  IF err # NoErr THEN Answer(500, DatabaseError)
  ELSE Answer(201, [message |-> "Task created.", taskId |-> result.insertId])

\* The db.query callback of app.post("/water-intake").
PostWaterIntakeCallback(err, result) ==
  IF err # NoErr THEN Answer(500, DatabaseError)
  ELSE Answer(200, [message |-> "Water intake updated/inserted successfully."])

\* The db.query callback of app.get("/tasks").
GetTasksCallback(err, rows) ==
  IF err # NoErr THEN Answer(500, DatabaseError) ELSE Answer(200, rows)

\* A mutant of GetWaterIntakeByDateCallback: no row answers 404.
GetWaterIntakeByDateCallbackNotFound(err, rows, date) ==
  IF err # NoErr THEN Answer(500, DatabaseError)
  ELSE IF Len(rows) > 0 THEN Answer(200, rows[1])
       ELSE Answer(404, [error |-> "Not found."])

\* The db.query callback of app.get("/water-intake/:date").
GetWaterIntakeByDateCallback(err, rows, date) ==
  IF err # NoErr THEN Answer(500, DatabaseError)
  ELSE IF Len(rows) > 0 THEN Answer(200, rows[1])
       ELSE Answer(200, [id |-> JNull, date |-> date, count |-> JNum(0)])

\* The db.query callback of app.get("/water-intake").
GetWaterIntakeCallback(err, rows) ==
  IF err # NoErr THEN Answer(500, DatabaseError) ELSE Answer(200, rows)

(***************************************************************************)
(* State.                                                                  *)
(***************************************************************************)
VARIABLES
  tz,            \* the process's zone offset in minutes (ambient, fixed at start)
  up,            \* the process is running (no callback threw)
  tasks,         \* rows of table tasks
  tasksAutoInc,  \* next AUTO_INCREMENT value of tasks
  water,         \* rows of table water_intake
  waterAutoInc,  \* next AUTO_INCREMENT value of water_intake
  inflight,      \* the bag of statements handed to db.query and not yet answered
  last,          \* the exchange answered in this turn of the event loop, if any
  dateObj,       \* the Date given to toMySQLDateTime (formatting specification)
  formatted      \* what toMySQLDateTime returned for dateObj

vars == <<tz, up, tasks, tasksAutoInc, water, waterAutoInc, inflight, last,
          dateObj, formatted>>

store == <<tasks, tasksAutoInc, water, waterAutoInc>>
fmt == <<dateObj, formatted>>

NoExchange == [op |-> "none"]

TZOffsets == {330}

StartTimes == {JNull, JStr(""), JStr("not-a-date"), JStr("2025-03-21T10:00:00.750Z")}
EndTimes == {JNull, JStr("not-a-date"), JStr("2025-03-21T20:30:00Z")}
TaskBodies ==
  [type : {JNull, JStr("homework")}, startTime : StartTimes, endTime : EndTimes,
   duration : {JNull, JNum(0)}]
    \cup {[type |-> JStr("homework"), startTime |-> JStr("2025-03-21T10:00:00.750Z"),
           endTime |-> JStr("2025-03-21T20:30:00Z"), duration |-> JNum(1800)]}

DateTexts == {"2025-03-21", "2025-03-22"}
WaterBodies ==
  [date : {JNull, JStr("")} \cup {JStr(d) : d \in DateTexts},
   count : {JNull, JNum(0), JNum(9)}]

\* The statements of route op that are with the store.
Pending(op) == {q \in BagToSet(inflight) : q.op = op}
\* INSERT statements into tasks that are with the store.
PendingInserts == BagCardinality([q \in Pending("POST /tasks") |-> inflight[q]])

Exchange(op, req, status, body, stmts, err) ==
  [op |-> op, req |-> req, status |-> status, body |-> body, stmts |-> stmts,
   err |-> err]

Init ==
  /\ tz \in TZOffsets
  /\ up = TRUE
  /\ tasks = {}
  /\ tasksAutoInc = 1
  /\ water = {}
  /\ waterAutoInc = 1
  /\ inflight = EmptyBag
  /\ last = NoExchange
  /\ dateObj = InvalidDate
  /\ formatted = ""

(***************************************************************************)
(* A request arrives and the route's handler runs up to db.query.          *)
(***************************************************************************)
\* db.query(sql, values, callback): the statement goes to the pool.
DbQuery(q) ==
  /\ BagCardinality(inflight) < MaxInFlight
  /\ inflight' = inflight (+) SetToBag({q})

PostTasks(body) ==
  LET h == PostTasksHandler(body, tz)
  IN /\ up
     /\ last = NoExchange
     /\ IF h.respond
        THEN /\ last' = Exchange("POST /tasks", body, h.status, h.body, 0, NoErr)
             /\ UNCHANGED inflight
        ELSE /\ Cardinality(tasks) + PendingInserts < MaxTasks
             /\ DbQuery([op |-> "POST /tasks", req |-> body, values |-> h.values])
             /\ UNCHANGED last
     /\ UNCHANGED <<tz, up, store, fmt>>

PostWaterIntake(body) ==
  LET h == PostWaterIntakeHandler(body)
  IN /\ up
     /\ last = NoExchange
     /\ IF h.respond
        THEN /\ last' = Exchange("POST /water-intake", body, h.status, h.body, 0, NoErr)
             /\ UNCHANGED inflight
        ELSE /\ DbQuery([op |-> "POST /water-intake", req |-> body, values |-> h.values])
             /\ UNCHANGED last
     /\ UNCHANGED <<tz, up, store, fmt>>

GetTasks ==
  /\ up
  /\ last = NoExchange
  /\ DbQuery([op |-> "GET /tasks", req |-> <<>>, values |-> <<>>])
  /\ UNCHANGED <<tz, up, store, last, fmt>>

GetWaterIntakeByDate(date) ==
  /\ up
  /\ last = NoExchange
  /\ DbQuery([op |-> "GET /water-intake/:date", req |-> date, values |-> <<JStr(date)>>])
  /\ UNCHANGED <<tz, up, store, last, fmt>>

GetWaterIntake ==
  /\ up
  /\ last = NoExchange
  /\ DbQuery([op |-> "GET /water-intake", req |-> <<>>, values |-> <<>>])
  /\ UNCHANGED <<tz, up, store, last, fmt>>

(***************************************************************************)
(* The store runs statement q (or fails it with err) and the route's       *)
(* callback answers.                                                       *)
(***************************************************************************)
Finish(q, a, err) ==
  /\ last' = Exchange(q.op, q.req, a.status, a.body, 1, err)
  /\ up' = ~a.threw
  /\ inflight' = inflight (-) SetToBag({q})

PostTasksDone(q, err) ==
  /\ up
  /\ last = NoExchange
  /\ q.op = "POST /tasks"
  /\ LET r == IF err # NoErr
              THEN [err |-> err, rows |-> tasks, autoInc |-> tasksAutoInc, insertId |-> 0]
              ELSE InsertTask(tasks, tasksAutoInc, q.values)
     IN /\ tasks' = r.rows
        /\ tasksAutoInc' = r.autoInc
        /\ Finish(q, PostTasksCallback(r.err, r), r.err)
  /\ UNCHANGED <<tz, water, waterAutoInc, fmt>>

PostWaterIntakeDone(q, err) ==
  /\ up
  /\ last = NoExchange
  /\ q.op = "POST /water-intake"
  /\ LET r == IF err # NoErr
              THEN [err |-> err, rows |-> water, autoInc |-> waterAutoInc]
              ELSE UpsertWaterIntake(water, waterAutoInc, q.values[1], q.values[2])
     IN /\ water' = r.rows
        /\ waterAutoInc' = r.autoInc
        /\ Finish(q, PostWaterIntakeCallback(r.err, r), r.err)
  /\ UNCHANGED <<tz, tasks, tasksAutoInc, fmt>>

GetTasksDone(q, err) ==
  /\ up
  /\ last = NoExchange
  /\ q.op = "GET /tasks"
  /\ LET rows == IF err # NoErr THEN <<>> ELSE OrderByIdDesc(tasks)
     IN Finish(q, GetTasksCallback(err, rows), err)
  /\ UNCHANGED <<tz, store, fmt>>

GetWaterIntakeByDateDone(q, err) ==
  /\ up
  /\ last = NoExchange
  /\ q.op = "GET /water-intake/:date"
  /\ LET rows == IF err # NoErr THEN <<>>
                 ELSE SelectWaterIntakeByDate(water, q.values[1])
     IN Finish(q, GetWaterIntakeByDateCallback(err, rows, q.req), err)
  /\ UNCHANGED <<tz, store, fmt>>

GetWaterIntakeDone(q, err) ==
  /\ up
  /\ last = NoExchange
  /\ q.op = "GET /water-intake"
  /\ LET rows == IF err # NoErr THEN <<>> ELSE OrderByIdDesc(water)
     IN Finish(q, GetWaterIntakeCallback(err, rows), err)
  /\ UNCHANGED <<tz, store, fmt>>

\* res.json has written the answer; the event loop takes the next event.
EndTurn ==
  /\ last # NoExchange
  /\ last' = NoExchange
  /\ UNCHANGED <<tz, up, store, inflight, fmt>>

Outcomes == StoreErrors \cup {NoErr}

Next ==
  \/ \E body \in TaskBodies : PostTasks(body)
  \/ \E body \in WaterBodies : PostWaterIntake(body)
  \/ GetTasks
  \/ \E date \in DateTexts : GetWaterIntakeByDate(date)
  \/ GetWaterIntake
  \/ \E q \in BagToSet(inflight), err \in Outcomes : PostTasksDone(q, err)
  \/ \E q \in BagToSet(inflight), err \in Outcomes : PostWaterIntakeDone(q, err)
  \/ \E q \in BagToSet(inflight), err \in Outcomes : GetTasksDone(q, err)
  \/ \E q \in BagToSet(inflight), err \in Outcomes : GetWaterIntakeByDateDone(q, err)
  \/ \E q \in BagToSet(inflight), err \in Outcomes : GetWaterIntakeDone(q, err)
  \/ EndTurn

Spec == Init /\ [][Next]_vars

(***************************************************************************)
(* The formatting specification: toMySQLDateTime applied to one Date drawn *)
(* from a range of years, days, clock times and zone offsets.              *)
(***************************************************************************)
FmtYears == {999, 1999, 2000, 2024, 2025, 10000}
FmtMonthDays == {<<1, 1>>, <<2, 28>>, <<3, 1>>, <<12, 31>>}
FmtClock == {<<0, 0, 0, 0>>, <<10, 0, 0, 750>>, <<23, 59, 59, 999>>}
FmtTZOffsets == {-300, 0, 330}

InitFmt ==
  /\ tz \in FmtTZOffsets
  /\ up = TRUE
  /\ tasks = {}
  /\ tasksAutoInc = 1
  /\ water = {}
  /\ waterAutoInc = 1
  /\ inflight = EmptyBag
  /\ last = NoExchange
  /\ dateObj \in {UTCInstant(y, md[1], md[2], c[1], c[2], c[3], c[4]) :
                    y \in FmtYears, md \in FmtMonthDays, c \in FmtClock}
  /\ formatted = ""

Format ==
  /\ formatted = ""
  /\ formatted' = toMySQLDateTime(dateObj, tz)
  /\ UNCHANGED <<tz, up, store, inflight, last, dateObj>>

NextFmt == Format

SpecFmt == InitFmt /\ [][NextFmt]_vars

(***************************************************************************)
(* Properties.                                                             *)
(***************************************************************************)
\* The step just taken answered a request of route op.
Answered(op) == last = NoExchange /\ last'.op = op

\* A body field that is a string new Date() reads as a valid instant.
Parses(v) == v.kind = "str" /\ DateParse(v.s).valid

WaterRowsOf(tbl, v) == {r \in tbl : r.date = MySQLDate(v)}

\* C1: the water_intake table never holds two records of one date, whatever
\* the order in which concurrent upserts reach the store, and an upsert is
\* never refused by the store as a duplicate of a date already present.
C1_OneRecordPerDate ==
  /\ \A r1, r2 \in water : r1.date = r2.date => r1 = r2
  /\ last.op = "POST /water-intake" => last.err # "ER_DUP_ENTRY"

\* An upsert of a date was just applied while another upsert of the same
\* date, with a different count, was with the store too; the date has its one
\* record, holding the count of the upsert applied.
C1_Witness ==
  /\ last.op = "POST /water-intake" /\ last.status = 200
  /\ \E q \in Pending("POST /water-intake") :
       q.req.date = last.req.date /\ q.req.count # last.req.count
  /\ \E r \in water : WaterRowsOf(water, last.req.date) = {r} /\ r.count = last.req.count

\* C2: a successful upsert of a date that has a record leaves exactly one
\* record of that date, with the same id and the new count, and every record
\* of another date as it was; a lookup of a date that has a record answers
\* 200 with that record's id and count.
C2_UpsertOverwritesInPlace ==
  [][/\ (Answered("POST /water-intake") /\ last'.status = 200) =>
          /\ \A r \in WaterRowsOf(water, last'.req.date) :
               WaterRowsOf(water', last'.req.date) = {[r EXCEPT !.count = last'.req.count]}
          /\ \A r \in WaterRowsOf(water', last'.req.date) : r.count = last'.req.count
          /\ Cardinality(WaterRowsOf(water', last'.req.date)) = 1
          /\ water \ WaterRowsOf(water, last'.req.date)
               = water' \ WaterRowsOf(water', last'.req.date)
     /\ (Answered("GET /water-intake/:date") /\ last'.err = NoErr) =>
          \A r \in WaterRowsOf(water, JStr(last'.req)) :
            /\ last'.status = 200
            /\ last'.body.id = JNum(r.id)
            /\ last'.body.count = r.count
            /\ last'.body.date = last'.req
    ]_vars

\* The record of the first date written (id 1) was overwritten after a second
\* date got its record (id 2): the upsert just answered did not insert.
C2_Witness ==
  /\ last.op = "POST /water-intake" /\ last.status = 200
  /\ Cardinality(water) = 2
  /\ \E r \in WaterRowsOf(water, last.req.date) : r.id = 1 /\ r.count = JNum(9)

\* C3: a lookup of a date that has no record, the store not failing, answers
\* 200 with {id: null, date: the requested date, count: 0} and leaves both
\* tables and their counters as they were.
C3_MissingDateIsPlaceholder ==
  [][(/\ Answered("GET /water-intake/:date")
      /\ last'.err = NoErr
      /\ WaterRowsOf(water, JStr(last'.req)) = {}) =>
         /\ last'.status = 200
         /\ last'.body = [id |-> JNull, date |-> last'.req, count |-> JNum(0)]
         /\ store' = store
    ]_vars

\* A date without a record was looked up while another date has one.
C3_Witness ==
  /\ last.op = "GET /water-intake/:date" /\ last.err = NoErr
  /\ WaterRowsOf(water, JStr(last.req)) = {}
  /\ water # {}

\* C4: CreateTask with any of the four fields null or absent is answered 400
\* MissingFields, also when a supplied date does not parse, with no statement
\* issued and the store untouched.
AnyMissing(body) ==
  \/ IsNullish(body.type) \/ IsNullish(body.startTime)
  \/ IsNullish(body.endTime) \/ IsNullish(body.duration)

C4_MissingBeforeParse ==
  [][(Answered("POST /tasks") /\ AnyMissing(last'.req)) =>
         /\ last'.status = 400
         /\ last'.body = MissingFields
         /\ last'.stmts = 0
         /\ store' = store
         /\ inflight' = inflight
    ]_vars

\* endTime is absent and the supplied startTime does not parse.
C4_Witness ==
  /\ last.op = "POST /tasks" /\ last.status = 400
  /\ IsNullish(last.req.endTime)
  /\ last.req.startTime = JStr("not-a-date")

\* C5: a duration or count of exactly 0 is not a missing field: with the
\* other fields present and valid the statement is issued, and unless the
\* store fails the answer is 201 (CreateTask, the new row holding duration 0)
\* or 200 (UpsertWaterIntake, the record holding count 0); a MissingFields
\* answer with the other fields non-empty means duration or count is null.
C5_ZeroIsNotMissing ==
  /\ (/\ last.op = "POST /tasks"
      /\ ~IsNullish(last.req.duration)
      /\ ~Falsy(last.req.type)
      /\ Parses(last.req.startTime) /\ Parses(last.req.endTime)) =>
         /\ last.stmts = 1
         /\ last.err = NoErr =>
              /\ last.status = 201
              /\ \E row \in tasks :
                   row.id = last.body.taskId /\ row.duration = last.req.duration
  /\ (/\ last.op = "POST /water-intake"
      /\ ~IsNullish(last.req.count)
      /\ ~Falsy(last.req.date)) =>
         /\ last.stmts = 1
         /\ last.err = NoErr =>
              /\ last.status = 200
              /\ \E r \in WaterRowsOf(water, last.req.date) : r.count = last.req.count
  /\ (/\ last.op = "POST /tasks" /\ last.status = 400 /\ last.body = MissingFields
      /\ ~Falsy(last.req.type) /\ ~Falsy(last.req.startTime)
      /\ ~Falsy(last.req.endTime)) => IsNullish(last.req.duration)
  /\ (/\ last.op = "POST /water-intake" /\ last.status = 400
      /\ ~Falsy(last.req.date)) => IsNullish(last.req.count)

\* CreateTask with duration 0 was answered 201 and its row holds duration 0.
C5_Witness ==
  /\ last.op = "POST /tasks" /\ last.status = 201
  /\ last.req.duration = JNum(0)
  /\ \E row \in tasks : row.id = last.body.taskId /\ row.duration = JNum(0)

\* C6 as stated: CreateTask with all four fields present (none null) and a
\* startTime or endTime that does not parse is answered 400 InvalidDateFormat,
\* with no statement issued and the store untouched.
C6_Original ==
  [][(/\ Answered("POST /tasks")
      /\ ~AnyMissing(last'.req)
      /\ (~Parses(last'.req.startTime) \/ ~Parses(last'.req.endTime))) =>
         /\ last'.status = 400
         /\ last'.body = InvalidDateFormat
         /\ last'.stmts = 0
         /\ store' = store
    ]_vars

\* C6 as amended: CreateTask with type, startTime and endTime present and
\* non-empty and duration not null, and a startTime or endTime that does not
\* parse, is answered 400 InvalidDateFormat, with no statement issued and the
\* store untouched (an empty string is answered 400 MissingFields instead).
C6_InvalidDateRejected ==
  [][(/\ Answered("POST /tasks")
      /\ ~Falsy(last'.req.type) /\ ~Falsy(last'.req.startTime)
      /\ ~Falsy(last'.req.endTime) /\ ~IsNullish(last'.req.duration)
      /\ (~Parses(last'.req.startTime) \/ ~Parses(last'.req.endTime))) =>
         /\ last'.status = 400
         /\ last'.body = InvalidDateFormat
         /\ last'.stmts = 0
         /\ store' = store
         /\ inflight' = inflight
    ]_vars

\* A valid startTime with an endTime that does not parse was answered 400
\* InvalidDateFormat while the tasks table already holds a row.
C6_Witness ==
  /\ last.op = "POST /tasks" /\ last.body = InvalidDateFormat
  /\ Parses(last.req.startTime)
  /\ last.req.endTime = JStr("not-a-date")
  /\ tasks # {}

\* C7: ListTasks and ListWaterIntake, the store not failing, answer 200 with
\* every row of their table exactly once, ids non-increasing along the
\* sequence (the empty sequence for an empty table).
ListedTable == IF last.op = "GET /tasks" THEN tasks ELSE water

C7_ListsAllRowsByIdDesc ==
  (last.op \in {"GET /tasks", "GET /water-intake"} /\ last.err = NoErr) =>
     /\ last.status = 200
     /\ Len(last.body) = Cardinality(ListedTable)
     /\ {last.body[i] : i \in 1..Len(last.body)} = ListedTable
     /\ \A i, j \in 1..Len(last.body) : i < j => last.body[i].id >= last.body[j].id

\* ListTasks answered two rows, the task created later first.
C7_Witness ==
  /\ last.op = "GET /tasks" /\ last.status = 200
  /\ Len(last.body) = 2
  /\ last.body[1].id = 2 /\ last.body[2].id = 1

\* C8: a request whose statement the store failed is answered 500 with
\* exactly {error: "Database error."}, nothing of the store's error in it,
\* after exactly one statement; no request issues more than one statement;
\* and the process stays up, so later requests are still taken.
C8_StoreFailureIsGeneric500 ==
  /\ up
  /\ last # NoExchange =>
       /\ last.stmts \in {0, 1}
       /\ last.err # NoErr =>
            /\ last.status = 500
            /\ last.body = DatabaseError
            /\ last.body.error # last.err
            /\ last.stmts = 1
       /\ last.status = 500 => last.err # NoErr

\* The store failed the INSERT of a CreateTask while another statement is
\* still with the store, and the tasks table has no row of it.
C8_Witness ==
  /\ last.op = "POST /tasks" /\ last.err # NoErr /\ last.status = 500
  /\ inflight # EmptyBag
  /\ up

\* C9: the tasks table only grows, and only by a CreateTask answered 201:
\* that step adds exactly one row, with an id no existing row has (the
\* taskId answered) and non-null type, start_time, end_time and duration;
\* every other step leaves the table, rows and fields, as it was.
C9_TasksAppendOnly ==
  [][/\ tasks \subseteq tasks'
     /\ \A r \in tasks, r2 \in tasks' : r2.id = r.id => r2 = r
     /\ (tasks' # tasks \/ (Answered("POST /tasks") /\ last'.status = 201)) =>
          /\ Answered("POST /tasks") /\ last'.status = 201
          /\ \E row \in tasks' \ tasks :
               /\ tasks' = tasks \cup {row}
               /\ row.id = last'.body.taskId
               /\ \A r \in tasks : r.id # row.id
               /\ row.type = last'.req.type /\ ~IsNullish(row.type)
               /\ row.duration = last'.req.duration /\ ~IsNullish(row.duration)
               /\ row.start_time # "" /\ row.end_time # ""
    ]_vars

\* A second task was just created beside the first.
C9_Witness ==
  /\ last.op = "POST /tasks" /\ last.status = 201 /\ last.body.taskId = 2
  /\ Cardinality(tasks) = 2

\* C10: toMySQLDateTime yields YYYY-MM-DD HH:MM:SS from the Date's local
\* fields, every component zero-padded to its fixed width (4-2-2 2:2:2), 19
\* characters in all.
C10_FixedWireFormat ==
  formatted # "" =>
    /\ Len(formatted) = 19
    /\ formatted = PadStart(ToString(getFullYear(dateObj, tz)), 4) \o "-"
         \o PadStart(ToString(getMonth(dateObj, tz) + 1), 2) \o "-"
         \o PadStart(ToString(getDate(dateObj, tz)), 2) \o " "
         \o PadStart(ToString(getHours(dateObj, tz)), 2) \o ":"
         \o PadStart(ToString(getMinutes(dateObj, tz)), 2) \o ":"
         \o PadStart(ToString(getSeconds(dateObj, tz)), 2)

\* The local fields toMySQLDateTime reads name the Date's own local day and
\* second: they rebuild the instant with its milliseconds dropped.
LocalFieldsRoundTrip ==
  /\ MakeDay(getFullYear(dateObj, tz), getMonth(dateObj, tz) + 1, getDate(dateObj, tz))
       = LocalTime(dateObj, tz).day
  /\ (getHours(dateObj, tz) * 60 + getMinutes(dateObj, tz)) * 60 + getSeconds(dateObj, tz)
       = LocalTime(dateObj, tz).ms \div 1000

====
